---- MODULE Spec2Model ----
(***************************************************************************)
(* A model of the opnsense MCP server core:                                *)
(*   - the SSE event broker of opnsense_mcp/server_sse.py (the registry    *)
(*     client_connections, sse_endpoint.event_generator, send_to_client);  *)
(*   - DHCPTool.execute of opnsense_mcp/tools/dhcp.py (lease status        *)
(*     reconciliation against the ARP/NDP tables);                         *)
(*   - ARPTool.execute of opnsense_mcp/tools/arp.py (search, filters and   *)
(*     DHCP enrichment of the neighbour tables).                           *)
(*                                                                         *)
(* Python strings are sequences of one-character strings, so that lower(), *)
(* strip() and the substring test `q in s` are computed and not assumed.   *)
(* Python dicts with optional keys are functions whose DOMAIN is the set   *)
(* of keys present.                                                        *)
(***************************************************************************)
EXTENDS Integers, Sequences, FiniteSets, TLC

VARIABLES
    client_connections, \* server_sse.py:56  dict client_id -> asyncio.Queue (a queue id)
    queues,             \* the asyncio.Queue objects ever created, by queue id
    pc,                 \* position of each subscription's event_generator
    cid,                \* client_id of each subscription (header X-Client-ID)
    waitq,              \* the queue object a suspended `await ....get()` holds
    yielded,            \* history: the items each stream has yielded
    accepted,           \* history: per client id, the events send_to_client accepted
    resp,               \* the last answer of send_to_client
    tables,             \* what the collaborator's four fetch calls return
    params,             \* the params dict of the tool call
    resolver,           \* resolve_host_info: absent, or the info it returns
    result,             \* what the tool's execute returned
    opnsense_client,    \* the collaborator the tools were built with
    request,            \* the request POST /tool/{name} or POST /jsonrpc received
    response,           \* the answer to that request
    executed            \* history: the tools whose execute was entered

brokerVars == <<client_connections, queues, pc, cid, waitq, yielded, accepted, resp>>
toolVars == <<tables, params, resolver, result, opnsense_client, request, response, executed>>
vars == <<client_connections, queues, pc, cid, waitq, yielded, accepted, resp,
          tables, params, resolver, result, opnsense_client, request, response, executed>>

----------------------------------------------------------------------------
(* Bounds of the model *)

MaxSubs == 2
MaxEvents == 3
MaxRows == 2
MaxNeighbors == 1

----------------------------------------------------------------------------
(* Python values *)

\* Python's None, kept comparable with strings (sequences of characters).
None == <<"<None>">>

\* Truthiness of an optional string: None and "" are falsy.
Truthy(v) == v # None /\ v # <<>>

\* The empty dict.
EmptyDict == [k \in {} |-> None]

\* dict.get(key, default)
Get(d, k, default) == IF k \in DOMAIN d THEN d[k] ELSE default

\* a or b
Or(a, b) == IF Truthy(a) THEN a ELSE b

Range(s) == {s[i] : i \in 1..Len(s)}

IsPrefix(s, t) == Len(s) <= Len(t) /\ SubSeq(t, 1, Len(s)) = s

----------------------------------------------------------------------------
(* EventBroker: server_sse.py *)

Subs == 1..MaxSubs
ClientIds == {"c1", "c2"}
NoClient == "-"
NoQueue == 0

\* The close signal of a stream: the value None put on a queue in place of an
\* event dict.
CloseSentinel == [event |-> "<None>", id |-> "", data |-> ""]

\* The synthetic first event of a stream.
ConnectedEventNoId(c) == [event |-> "connected", id |-> NoClient, data |-> c]
ConnectedEvent(c) == [event |-> "connected", id |-> c, data |-> c]

\* Ids the publishers give their events: the n-th accepted event carries the n-th id.
EventIdOf(n) == "e" \o ToString(n)

NumAccepted == Len(accepted["c1"]) + Len(accepted["c2"])

\* The bodies POST /send/{client_id} is called with: alternately without and
\* with an "event" key.
DataInputs ==
    IF NumAccepted % 2 = 0
    THEN { [id |-> EventIdOf(NumAccepted + 1)] }
    ELSE { [id |-> EventIdOf(NumAccepted + 1), event |-> "update"] }

\* The event dict send_to_client builds from the body.
MakeEvent(data) ==
    [event |-> Get(data, "event", "message"), id |-> data.id, data |-> "{}"]

\* asyncio.Queue.put on an unbounded queue / asyncio.Queue.get
QueuePutFront(q, e) == <<e>> \o q
QueuePut(q, e) == Append(q, e)

\* The finally clause of event_generator.
FinallyKeep(reg, c) == reg
Finally(reg, c) == [k \in DOMAIN reg \ {c} |-> reg[k]]

\* client_connections[client_id] = asyncio.Queue()
Register(reg, c, q) == [k \in DOMAIN reg \cup {c} |-> IF k = c THEN q ELSE reg[k]]

InitBroker ==
    /\ client_connections = << >>
    /\ queues = << >>
    /\ pc = [s \in Subs |-> "idle"]
    /\ cid = [s \in Subs |-> NoClient]
    /\ waitq = [s \in Subs |-> NoQueue]
    /\ yielded = [s \in Subs |-> << >>]
    /\ accepted = [c \in ClientIds |-> << >>]
    /\ resp = [client |-> NoClient, status |-> 0]

\* GET /sse: the handler reads the client id and returns the response object
\* that wraps the generator; the generator has not started.  Subscriptions are
\* numbered in the order of their requests, and the client ids named in the
\* order of their first use.
sse_endpoint(s, c) ==
    /\ pc[s] = "idle"
    /\ \A t \in Subs : t < s => pc[t] # "idle"
    /\ s = 1 => c = "c1"
    /\ pc' = [pc EXCEPT ![s] = "start"]
    /\ cid' = [cid EXCEPT ![s] = c]
    /\ UNCHANGED <<client_connections, queues, waitq, yielded, accepted, resp>>

\* First step of event_generator: runs to the first yield.
gen_connected(s) ==
    /\ pc[s] = "start"
    /\ yielded' = [yielded EXCEPT ![s] = Append(@, ConnectedEvent(cid[s]))]
    /\ pc' = [pc EXCEPT ![s] = "yield_connected"]
    /\ UNCHANGED <<client_connections, queues, cid, waitq, accepted, resp>>

\* Resumed after the connected event: registers a fresh queue, enters the loop
\* and suspends in get() on the (empty) queue it has just looked up.
gen_register(s) ==
    /\ pc[s] = "yield_connected"
    /\ queues' = Append(queues, << >>)
    /\ client_connections' = Register(client_connections, cid[s], Len(queues) + 1)
    /\ waitq' = [waitq EXCEPT ![s] = client_connections'[cid[s]]]
    /\ pc' = [pc EXCEPT ![s] = "await_get"]
    /\ UNCHANGED <<cid, yielded, accepted, resp>>

\* The rest of a loop iteration once get() has an item `event` taken from
\* queue q: the close sentinel breaks to the finally clause, anything else is
\* yielded.
gen_handle(s, q) ==
    LET event == Head(queues[q]) IN
    /\ queues' = [queues EXCEPT ![q] = Tail(@)]
    /\ waitq' = [waitq EXCEPT ![s] = NoQueue]
    /\ IF event = CloseSentinel
       THEN /\ client_connections' = Finally(client_connections, cid[s])
            /\ pc' = [pc EXCEPT ![s] = "done"]
            /\ UNCHANGED yielded
       ELSE /\ yielded' = [yielded EXCEPT ![s] = Append(@, event)]
            /\ pc' = [pc EXCEPT ![s] = "yield_event"]
            /\ UNCHANGED client_connections
    /\ UNCHANGED <<cid, accepted, resp>>

\* A suspended get() completes: the queue it waits on has an item.
gen_get(s) ==
    /\ pc[s] = "await_get"
    /\ queues[waitq[s]] # << >>
    /\ gen_handle(s, waitq[s])

\* Resumed after yielding an event: the loop looks the queue up again in the
\* registry.  A missing key raises KeyError, which `except CancelledError`
\* does not catch: the finally clause runs and the generator fails.  An empty
\* queue suspends get(); a non-empty one is read without suspending.
gen_resume(s) ==
    /\ pc[s] = "yield_event"
    /\ \/ /\ cid[s] \notin DOMAIN client_connections
          /\ client_connections' = Finally(client_connections, cid[s])
          /\ pc' = [pc EXCEPT ![s] = "crashed"]
          /\ UNCHANGED <<queues, cid, waitq, yielded, accepted, resp>>
       \/ /\ cid[s] \in DOMAIN client_connections
          /\ queues[client_connections[cid[s]]] = << >>
          /\ waitq' = [waitq EXCEPT ![s] = client_connections[cid[s]]]
          /\ pc' = [pc EXCEPT ![s] = "await_get"]
          /\ UNCHANGED <<client_connections, queues, cid, yielded, accepted, resp>>
       \/ /\ cid[s] \in DOMAIN client_connections
          /\ queues[client_connections[cid[s]]] # << >>
          /\ gen_handle(s, client_connections[cid[s]])

\* The client disconnects.  A generator that has started is suspended at a
\* yield or in get(): the cancellation is raised there and the finally clause
\* runs.  A generator that has not started never runs.
cancel(s) ==
    /\ pc[s] \in {"start", "yield_connected", "await_get", "yield_event"}
    /\ client_connections' =
          IF pc[s] = "start" THEN client_connections
          ELSE Finally(client_connections, cid[s])
    /\ pc' = [pc EXCEPT ![s] = "done"]
    /\ waitq' = [waitq EXCEPT ![s] = NoQueue]
    /\ UNCHANGED <<queues, cid, yielded, accepted, resp>>

\* POST /send/{client_id}, with a setdefault in place of the membership test.
send_to_client_create(c, data) ==
    /\ NumAccepted < MaxEvents
    /\ IF c \in DOMAIN client_connections
       THEN /\ queues' = [queues EXCEPT ![client_connections[c]] = QueuePut(@, MakeEvent(data))]
            /\ UNCHANGED client_connections
       ELSE /\ queues' = Append(queues, <<MakeEvent(data)>>)
            /\ client_connections' = Register(client_connections, c, Len(queues) + 1)
    /\ accepted' = [accepted EXCEPT ![c] = Append(@, MakeEvent(data))]
    /\ resp' = [client |-> c, status |-> 200]
    /\ UNCHANGED <<pc, cid, waitq, yielded>>

\* POST /send/{client_id}, putting the event on every queue of the registry.
send_to_client_broadcast(c, data) ==
    IF c \notin DOMAIN client_connections
    THEN /\ resp' = [client |-> c, status |-> 404]
         /\ UNCHANGED <<client_connections, queues, pc, cid, waitq, yielded, accepted>>
    ELSE /\ NumAccepted < MaxEvents
         /\ queues' = [q \in 1..Len(queues) |->
                          IF \E d \in DOMAIN client_connections : client_connections[d] = q
                          THEN QueuePut(queues[q], MakeEvent(data))
                          ELSE queues[q]]
         /\ accepted' = [accepted EXCEPT ![c] = Append(@, MakeEvent(data))]
         /\ resp' = [client |-> c, status |-> 200]
         /\ UNCHANGED <<client_connections, pc, cid, waitq, yielded>>

\* POST /send/{client_id}
send_to_client(c, data) ==
    IF c \notin DOMAIN client_connections
    THEN /\ resp' = [client |-> c, status |-> 404]
         /\ UNCHANGED <<client_connections, queues, pc, cid, waitq, yielded, accepted>>
    ELSE /\ NumAccepted < MaxEvents
         /\ queues' = [queues EXCEPT ![client_connections[c]] = QueuePut(@, MakeEvent(data))]
         /\ accepted' = [accepted EXCEPT ![c] = Append(@, MakeEvent(data))]
         /\ resp' = [client |-> c, status |-> 200]
         /\ UNCHANGED <<client_connections, pc, cid, waitq, yielded>>

\* A collaborator that is present and whose calls all return.
WorkingClient == [present |-> TRUE, failing |-> {}, others_raise |-> FALSE]

\* No request has been received by the dispatcher.
InitDispatcherIdle ==
    /\ opnsense_client = WorkingClient
    /\ request = [kind |-> "none"]
    /\ response = [pending |-> TRUE]
    /\ executed = << >>

\* The tool state is not touched by the broker.
InitToolsIdle ==
    /\ tables = [arp |-> << >>, ndp |-> << >>, dhcpv4 |-> << >>, dhcpv6 |-> << >>]
    /\ params = EmptyDict
    /\ resolver = [available |-> FALSE]
    /\ result = [status |-> "pending"]
    /\ InitDispatcherIdle

Init == InitBroker /\ InitToolsIdle

Next ==
    \/ \E s \in Subs, c \in ClientIds : sse_endpoint(s, c) /\ UNCHANGED toolVars
    \/ \E s \in Subs : gen_connected(s) /\ UNCHANGED toolVars
    \/ \E s \in Subs : gen_register(s) /\ UNCHANGED toolVars
    \/ \E s \in Subs : gen_get(s) /\ UNCHANGED toolVars
    \/ \E s \in Subs : gen_resume(s) /\ UNCHANGED toolVars
    \/ \E s \in Subs : cancel(s) /\ UNCHANGED toolVars
    \/ \E c \in ClientIds, data \in DataInputs : send_to_client(c, data) /\ UNCHANGED toolVars

Spec == Init /\ [][Next]_vars

----------------------------------------------------------------------------
(* Properties of the event broker *)

Started == {"yield_connected", "await_get", "yield_event"}
Ended == {"done", "crashed"}

\* Subscription s is the only one that has used its client id.
SoleSubscription(s) ==
    /\ pc[s] # "idle"
    /\ \A t \in Subs : (t # s /\ pc[t] # "idle") => cid[t] # cid[s]

\* C5: for a client id used by a single subscription, the events its stream
\* has yielded after the connected event are, in order and without gap or
\* repetition, the first events that send_to_client accepted for that id,
\* whatever was published to other clients in between.
C5_FifoDelivery ==
    \A s \in Subs :
        (SoleSubscription(s) /\ yielded[s] # << >>)
            => IsPrefix(Tail(yielded[s]), accepted[cid[s]])

C5_Witness ==
    \E s \in Subs :
        /\ SoleSubscription(s)
        /\ Len(yielded[s]) = 3
        /\ yielded[s][2].id = "e1"
        /\ yielded[s][3].id = "e3"
        /\ \E c \in ClientIds : c # cid[s] /\ Len(accepted[c]) = 1

\* C6: a send_to_client call for a client id that has no queue in the registry
\* is answered 404 and changes neither the registry nor any queue.
C6_PublishAbsentFails ==
    [][\A c \in ClientIds, data \in DataInputs :
          (c \notin DOMAIN client_connections /\ send_to_client(c, data))
              => /\ resp'.client = c
                 /\ resp'.status = 404
                 /\ UNCHANGED <<client_connections, queues>>]_vars

C6_Witness ==
    /\ resp.status = 404
    /\ resp.client \notin DOMAIN client_connections
    /\ \E s \in Subs : cid[s] = resp.client /\ pc[s] = "done" /\ Len(yielded[s]) >= 2

\* C7: whenever a subscription that is alone on its client id has delivered
\* its connected event and has not ended, the registry holds a queue for the id.
C7_QueueWhileConnected ==
    \A s \in Subs :
        (SoleSubscription(s) /\ pc[s] \in Started)
            => cid[s] \in DOMAIN client_connections

\* C8: a step that ends a started subscription (cancellation at a yield or in
\* get(), the close sentinel, a failure of the loop) leaves no registry entry
\* for its client id, and every registry entry belongs to a client id that
\* has a registered subscription still running.
C8_EndRemovesEntry ==
    [][/\ \A s \in Subs :
              (pc[s] \in Started /\ pc'[s] \in Ended)
                  => cid[s] \notin DOMAIN client_connections'
       /\ \A c \in DOMAIN client_connections' :
              \E s \in Subs : cid'[s] = c /\ pc'[s] \in {"await_get", "yield_event"}]_vars

C8_Witness ==
    \E s \in Subs :
        /\ pc[s] = "done"
        /\ Len(yielded[s]) >= 2
        /\ queues # << >>
        /\ cid[s] \notin DOMAIN client_connections

\* C9: registering a subscription under a client id that already has a queue
\* keeps that queue in the registry.
C9_SubscribeKeepsQueue ==
    [][\A s \in Subs :
          (pc[s] = "yield_connected" /\ pc'[s] = "await_get"
             /\ cid[s] \in DOMAIN client_connections)
              => client_connections'[cid[s]] = client_connections[cid[s]]]_vars

\* C10: a stream that has started has yielded something; its first item is the
\* connected event carrying its client id, and every later item is an event
\* that send_to_client accepted for that same client id.
C10_ConnectedFirst ==
    \A s \in Subs :
        /\ pc[s] \in Started => yielded[s] # << >>
        /\ yielded[s] # << >> =>
              /\ yielded[s][1].event = "connected"
              /\ yielded[s][1].id = cid[s]
              /\ \A i \in 2..Len(yielded[s]) : yielded[s][i] \in Range(accepted[cid[s]])

C10_Witness ==
    \E s \in Subs : Len(yielded[s]) >= 3 /\ yielded[s][2].event = "message"

\* C11: a publish that send_to_client accepts for client id c appends the
\* event to the queue registered under c and to no other queue; the registry
\* keeps the same ids and the same queues, and no queue is created or dropped.
C11_NoFanOut ==
    [][\A c \in ClientIds :
          accepted'[c] # accepted[c] =>
              /\ c \in DOMAIN client_connections
              /\ client_connections' = client_connections
              /\ Len(queues') = Len(queues)
              /\ \A q \in 1..Len(queues) :
                    queues'[q] =
                        IF q = client_connections[c]
                        THEN Append(queues[q], accepted'[c][Len(accepted'[c])])
                        ELSE queues[q]]_vars

C11_Witness ==
    /\ "c1" \in DOMAIN client_connections
    /\ "c2" \in DOMAIN client_connections
    /\ resp = [client |-> "c1", status |-> 200]
    /\ Len(accepted["c1"]) = 1
    /\ accepted["c2"] = << >>
    /\ queues[client_connections["c1"]] = accepted["c1"]
    /\ queues[client_connections["c2"]] = << >>

----------------------------------------------------------------------------
(* Python strings *)

UpperChars == <<"A","B","C","D","E","F","G","H","I","J","K","L","M",
                "N","O","P","Q","R","S","T","U","V","W","X","Y","Z">>
LowerChars == <<"a","b","c","d","e","f","g","h","i","j","k","l","m",
                "n","o","p","q","r","s","t","u","v","w","x","y","z">>

LowerChar(ch) ==
    IF \E i \in 1..Len(UpperChars) : UpperChars[i] = ch
    THEN LowerChars[CHOOSE i \in 1..Len(UpperChars) : UpperChars[i] = ch]
    ELSE ch

\* str.lower()
Lower(s) == [i \in 1..Len(s) |-> LowerChar(s[i])]

IsSpace(ch) == ch \in {" ", "\t", "\n", "\r"}

RECURSIVE LStrip(_)
LStrip(s) == IF s # << >> /\ IsSpace(Head(s)) THEN LStrip(Tail(s)) ELSE s

RECURSIVE RStrip(_)
RStrip(s) ==
    IF s # << >> /\ IsSpace(s[Len(s)]) THEN RStrip(SubSeq(s, 1, Len(s) - 1)) ELSE s

\* str.strip()
Strip(s) == RStrip(LStrip(s))

\* q in s
Contains(s, q) ==
    \E i \in 1..(Len(s) - Len(q) + 1) : SubSeq(s, i, i + Len(q) - 1) = q

\* str(v) of an optional string
Str(v) == IF v = None THEN <<"N","o","n","e">> ELSE v

\* Python's bool-or-None values, written as they print.
IsTrue(b) == b = "True"

\* The rows of `rows` (pairs <<table, row>>) that belong to table `name`.
RECURSIVE RowsOf(_, _)
RowsOf(rows, name) ==
    IF rows = << >> THEN << >>
    ELSE IF Head(rows)[1] = name THEN <<Head(rows)[2]>> \o RowsOf(Tail(rows), name)
    ELSE RowsOf(Tail(rows), name)

\* Sequences over S of length at most n.
SeqsUpTo(S, n) == UNION {[1..k -> S] : k \in 0..n}

TablesOf(rows) ==
    [arp |-> RowsOf(rows, "arp"), ndp |-> RowsOf(rows, "ndp"),
     dhcpv4 |-> RowsOf(rows, "dhcpv4"), dhcpv6 |-> RowsOf(rows, "dhcpv6")]

----------------------------------------------------------------------------
(* DHCPTool: opnsense_mcp/tools/dhcp.py *)

\* _normalize_lease_entry
NormalizeLeaseEntry(entry) ==
    IF "address" \in DOMAIN entry /\ "ip" \notin DOMAIN entry
    THEN [k \in (DOMAIN entry \ {"address"}) \cup {"ip"} |->
             IF k = "ip" THEN entry["address"] ELSE entry[k]]
    ELSE entry

\* {entry.get(key) for entry in table if entry.get(key)}
KeySet(table, key) ==
    {Get(table[i], key, None) : i \in {j \in 1..Len(table) : Truthy(Get(table[j], key, None))}}

\* The cross-referenced status of one normalized lease.
ActualStatusIpOnly(normalized, ips, macs) ==
    LET is_in == Get(normalized, "ip", None) \in ips
        dhcp_status == Get(normalized, "online", "False")
    IN IF is_in THEN "Online" ELSE IF IsTrue(dhcp_status) THEN "Online" ELSE "Offline"
ActualStatus(normalized, ips, macs) ==
    LET is_in == Get(normalized, "ip", None) \in ips \/ Get(normalized, "mac", None) \in macs
        dhcp_status == Get(normalized, "online", "False")
    IN IF is_in THEN "Online" ELSE IF IsTrue(dhcp_status) THEN "Online" ELSE "Offline"

\* DHCPLease(**normalized) validates: ip and mac are required strings.
LeaseValid(normalized) ==
    /\ Get(normalized, "ip", None) # None
    /\ Get(normalized, "mac", None) # None

\* DHCPLease(**normalized).model_dump(); start, end, lease_type and description
\* are copied through like hostname and are left out.
LeaseDump(normalized) ==
    [ip |-> normalized.ip, mac |-> normalized.mac,
     hostname |-> Get(normalized, "hostname", None),
     online |-> Get(normalized, "online", "None"),
     actual_status |-> normalized.actual_status]

\* One pass of a lease loop of execute over the leases of one family, against
\* the neighbour table `neigh`.
LeaseEntries(leases, neigh) ==
    [i \in 1..Len(leases) |->
        LET normalized == NormalizeLeaseEntry(leases[i])
            status == ActualStatus(normalized, KeySet(neigh, "ip"), KeySet(neigh, "mac"))
        IN IF LeaseValid(normalized)
           THEN LeaseDump([k \in DOMAIN normalized \cup {"actual_status"} |->
                              IF k = "actual_status" THEN status ELSE normalized[k]])
           ELSE [invalid |-> TRUE]]

\* The DHCPv4 loop, with the neighbour tables of both families merged.
LeaseEntriesV4Merged(t) == LeaseEntries(t.dhcpv4, t.arp \o t.ndp)
LeaseEntriesV4(t) == LeaseEntries(t.dhcpv4, t.arp)
LeaseEntriesV6(t) == LeaseEntries(t.dhcpv6, t.ndp)

AllValid(entries) == \A i \in 1..Len(entries) : "invalid" \notin DOMAIN entries[i]

\* DHCPTool.execute with a collaborator whose fetch calls return the tables t.
DHCPTool_execute(t) ==
    IF AllValid(LeaseEntriesV4(t)) /\ AllValid(LeaseEntriesV6(t))
    THEN [dhcpv4 |-> LeaseEntriesV4(t), dhcpv6 |-> LeaseEntriesV6(t),
          status |-> "success",
          dhcp_status |-> IF LeaseEntriesV4(t) = << >> /\ LeaseEntriesV6(t) = << >>
                          THEN "No DHCP leases found" ELSE "OK"]
    ELSE [dhcpv4 |-> << >>, dhcpv6 |-> << >>, status |-> "error",
          dhcp_status |-> "Error retrieving DHCP leases"]

\* Input rows of the DHCP check.
IpA == <<"1","0",".","1">>
IpB == <<"1","0",".","2">>
MacA == <<"a","a",":","0","1">>
MacB == <<"b","b",":","0","2">>

DhcpLeaseRows ==
    { [ip |-> IpA, mac |-> MacA, online |-> "True"],
      [ip |-> IpA, mac |-> MacA, online |-> "False"],
      [ip |-> IpA, mac |-> MacA],
      [address |-> IpA, mac |-> MacA, online |-> "False"],
      [ip |-> IpA, online |-> "False"] }

DhcpNeighborRows ==
    { [ip |-> IpA, mac |-> MacA, intf |-> "em0"],
      [ip |-> IpA, mac |-> MacB, intf |-> "em0"],
      [ip |-> IpB, mac |-> MacA, intf |-> "em0"],
      [ip |-> IpB, mac |-> MacB, intf |-> "em0"],
      [mac |-> MacB, intf |-> "em0"] }

DhcpTaggedRows ==
    ({"dhcpv4", "dhcpv6"} \X DhcpLeaseRows) \cup ({"arp", "ndp"} \X DhcpNeighborRows)

InitDhcp ==
    /\ InitBroker
    /\ \E rows \in SeqsUpTo(DhcpTaggedRows, MaxRows) : tables = TablesOf(rows)
    /\ params = EmptyDict
    /\ resolver = [available |-> FALSE]
    /\ result = [status |-> "pending"]
    /\ InitDispatcherIdle

DhcpCall ==
    /\ result.status = "pending"
    /\ result' = DHCPTool_execute(tables)
    /\ UNCHANGED <<tables, params, resolver, opnsense_client, request, response, executed>>
    /\ UNCHANGED brokerVars

NextDhcp == DhcpCall

SpecDhcp == InitDhcp /\ [][NextDhcp]_vars

\* C1: every lease DHCPTool.execute returns is Online exactly when its ip is
\* among the ips of its family's neighbour table, or its mac among that
\* table's macs, or its online flag is true; otherwise it is Offline.
NeighborValues(table, key) ==
    {table[j][key] : j \in {i \in 1..Len(table) : key \in DOMAIN table[i] /\ Truthy(table[i][key])}}

ExpectedStatus(lease, table) ==
    IF \/ lease.ip \in NeighborValues(table, "ip")
       \/ lease.mac \in NeighborValues(table, "mac")
       \/ lease.online = "True"
    THEN "Online" ELSE "Offline"

C1_ActualStatus ==
    result.status = "success" =>
        /\ Len(result.dhcpv4) = Len(tables.dhcpv4)
        /\ Len(result.dhcpv6) = Len(tables.dhcpv6)
        /\ \A i \in 1..Len(result.dhcpv4) :
              result.dhcpv4[i].actual_status = ExpectedStatus(result.dhcpv4[i], tables.arp)
        /\ \A i \in 1..Len(result.dhcpv6) :
              result.dhcpv6[i].actual_status = ExpectedStatus(result.dhcpv6[i], tables.ndp)

\* A lease whose flag is false and whose mac alone is in the ARP table is Online.
C1_Witness ==
    /\ result.status = "success"
    /\ \E i \in 1..Len(result.dhcpv4) :
          /\ result.dhcpv4[i].online = "False"
          /\ result.dhcpv4[i].ip \notin NeighborValues(tables.arp, "ip")
          /\ result.dhcpv4[i].mac \in NeighborValues(tables.arp, "mac")
          /\ result.dhcpv4[i].actual_status = "Online"

\* C2: a lease whose online flag is not true and whose ip and mac are absent
\* from its own family's neighbour table is Offline, whatever the other
\* family's table holds.
OwnFamilyAbsent(lease, table) ==
    /\ lease.online # "True"
    /\ lease.ip \notin NeighborValues(table, "ip")
    /\ lease.mac \notin NeighborValues(table, "mac")

C2_NoFamilyCrossing ==
    result.status = "success" =>
        /\ \A i \in 1..Len(result.dhcpv4) :
              OwnFamilyAbsent(result.dhcpv4[i], tables.arp)
                  => result.dhcpv4[i].actual_status = "Offline"
        /\ \A i \in 1..Len(result.dhcpv6) :
              OwnFamilyAbsent(result.dhcpv6[i], tables.ndp)
                  => result.dhcpv6[i].actual_status = "Offline"

\* A DHCPv4 lease found only in the NDP table is Offline.
C2_Witness ==
    /\ result.status = "success"
    /\ \E i \in 1..Len(result.dhcpv4) :
          /\ OwnFamilyAbsent(result.dhcpv4[i], tables.arp)
          /\ result.dhcpv4[i].ip \in NeighborValues(tables.ndp, "ip")
          /\ result.dhcpv4[i].mac \in NeighborValues(tables.ndp, "mac")
          /\ result.dhcpv4[i].actual_status = "Offline"

----------------------------------------------------------------------------
(* ARPTool: opnsense_mcp/tools/arp.py *)

\* dict[key] = value
MapPut(m, k, v) == [x \in DOMAIN m \cup {k} |-> IF x = k THEN v ELSE m[x]]

\* The loops that fill dhcp_ip_map: later leases overwrite earlier ones.
RECURSIVE DhcpIpMapFrom(_, _)
DhcpIpMapFrom(m, leases) ==
    IF leases = << >> THEN m
    ELSE LET lease == Head(leases)
             ip == Or(Get(lease, "ip", None), Get(lease, "address", None))
         IN DhcpIpMapFrom(IF Truthy(ip) THEN MapPut(m, ip, lease) ELSE m, Tail(leases))

\* The loops that fill dhcp_mac_map, keyed by the lower-cased mac.
RECURSIVE DhcpMacMapFrom(_, _)
DhcpMacMapFrom(m, leases) ==
    IF leases = << >> THEN m
    ELSE LET lease == Head(leases)
             mac == Get(lease, "mac", None)
         IN DhcpMacMapFrom(IF Truthy(mac) THEN MapPut(m, Lower(mac), lease) ELSE m,
                           Tail(leases))

DhcpIpMap(t) == DhcpIpMapFrom(EmptyDict, t.dhcpv4 \o t.dhcpv6)
DhcpMacMap(t) == DhcpMacMapFrom(EmptyDict, t.dhcpv4 \o t.dhcpv6)

\* ARPEntry(**entry) validates: mac, ip and intf are required strings.
EntryValid(entry) ==
    /\ Get(entry, "mac", None) # None
    /\ Get(entry, "ip", None) # None
    /\ "intf" \in DOMAIN entry

\* ARPEntry(**entry).model_dump(); expires, permanent, type and description
\* are copied through and are left out.
EntryDump(entry) ==
    [mac |-> entry.mac, ip |-> entry.ip, intf |-> entry.intf,
     manufacturer |-> Get(entry, "manufacturer", None),
     hostname |-> Get(entry, "hostname", None),
     dhcp_status |-> Get(entry, "dhcp_status", None)]

\* oui_lookup.lookup(mac): the vendor of a MAC prefix, None when unknown.
OuiLookup(mac) ==
    IF IsPrefix(<<"a","a",":","b","b",":","c","c">>, Lower(mac))
    THEN <<"T","e","s","t","C","o","r","p">> ELSE None

\* The name of a lease read from its hostname key alone.
LeaseNameCanonicalOnly(dhcp_info) == Get(dhcp_info, "hostname", None)
\* dhcp_info.get("hostname") or dhcp_info.get("client-hostname")
LeaseName(dhcp_info) ==
    Or(Get(dhcp_info, "hostname", None), Get(dhcp_info, "client-hostname", None))

\* The status of an entry that is in the neighbour table, whatever the lease says.
DhcpStatusTextPresent(dhcp_info) == <<"O","n","l","i","n","e">>
\* "Online" if dhcp_info.get("online") else "Offline"
DhcpStatusText(dhcp_info) ==
    IF IsTrue(Get(dhcp_info, "online", "None"))
    THEN <<"O","n","l","i","n","e">>
    ELSE <<"O","f","f","l","i","n","e">>

\* _fill_manufacturer_and_dhcp
FillManufacturerAndDhcp(entry, dhcp_ip_map, dhcp_mac_map) ==
    LET e1 == IF ~Truthy(entry.manufacturer) /\ Truthy(entry.mac)
              THEN [entry EXCEPT !.manufacturer = Or(OuiLookup(entry.mac), << >>)]
              ELSE entry
        ip == e1.ip
        mac == IF Truthy(e1.mac) THEN Lower(e1.mac) ELSE None
        found == IF Truthy(ip) /\ ip \in DOMAIN dhcp_ip_map THEN "ip"
                 ELSE IF Truthy(mac) /\ mac \in DOMAIN dhcp_mac_map THEN "mac"
                 ELSE "none"
        dhcp_info == IF found = "ip" THEN dhcp_ip_map[ip] ELSE dhcp_mac_map[mac]
    IN IF found = "none" THEN e1
       ELSE LET name == LeaseName(dhcp_info)
                e2 == IF ~Truthy(e1.hostname) /\ Truthy(name)
                      THEN [e1 EXCEPT !.hostname = name] ELSE e1
            IN [e2 EXCEPT !.dhcp_status = DhcpStatusText(dhcp_info)]

\* The test that sends a search to the full-table branch, without strip().
IsSelectAllNoStrip(search_query) == search_query = <<"*">> \/ search_query = << >>
\* search_query.strip() == "*" or not search_query.strip()
IsSelectAll(search_query) ==
    Strip(search_query) = <<"*">> \/ Strip(search_query) = << >>

\* The identifiers taken from the answer of resolve_host_info.
ResolvedIds(info) ==
    LET top == {Get(info, k, None) : k \in {"ip", "mac", "hostname"}}
        dhcp == info["dhcpv4"]
        nested == IF "dhcpv4" \notin DOMAIN info THEN {}
                  ELSE { Or(Get(dhcp, "ip", None), Get(dhcp, "address", None)),
                         Get(dhcp, "mac", None),
                         Or(Get(dhcp, "hostname", None), Get(dhcp, "client-hostname", None)) }
    IN {v \in top \cup nested : Truthy(v)}

\* The token set built from the raw query alone.
AllQueriesRawOnly(search_query, res) == {Lower(search_query)}
\* The token set without the raw query once the resolver has answered with
\* identifiers.
AllQueriesResolvedOnly(search_query, res) ==
    LET resolved == IF res.available THEN ResolvedIds(res.info) ELSE {}
    IN IF resolved # {} THEN {Lower(q) : q \in resolved} ELSE {Lower(search_query)}
\* all_queries: the raw query and every resolved identifier, lower-cased.
AllQueries(search_query, res) ==
    LET resolved == IF res.available THEN ResolvedIds(res.info) ELSE {}
    IN {Lower(q) : q \in {x \in {search_query} \cup resolved : Truthy(x)}}

\* match_any, on the raw row
MatchAny(entry, all_queries) ==
    \E q \in all_queries :
        \/ Contains(Lower(Str(Get(entry, "ip", << >>))), q)
        \/ Contains(Lower(Str(Get(entry, "mac", << >>))), q)
        \/ Contains(Lower(Str(Get(entry, "hostname", << >>))), q)

\* [x for x in seq if keep(x)], with the kept positions given as a set.
RECURSIVE SelectAt(_, _, _)
SelectAt(seq, keep, i) ==
    IF i > Len(seq) THEN << >>
    ELSE IF i \in keep THEN <<seq[i]>> \o SelectAt(seq, keep, i + 1)
    ELSE SelectAt(seq, keep, i + 1)

Matching(data, all_queries) ==
    SelectAt(data, {i \in 1..Len(data) : MatchAny(data[i], all_queries)}, 1)

\* The mac filter as a substring test.
WithMacContains(entries, mac_filter) ==
    SelectAt(entries, {i \in 1..Len(entries) : Contains(Lower(entries[i].mac), mac_filter)}, 1)

\* [e for e in entries if e.get("mac", "").lower() == mac_filter]
WithMac(entries, mac_filter) ==
    SelectAt(entries, {i \in 1..Len(entries) : Lower(entries[i].mac) = mac_filter}, 1)

WithIp(entries, ip_filter) ==
    SelectAt(entries, {i \in 1..Len(entries) : entries[i].ip = ip_filter}, 1)

\* [fill(ARPEntry(**entry).model_dump()) for entry in data]
EnrichAll(data, t) ==
    [i \in 1..Len(data) |->
        IF EntryValid(data[i])
        THEN FillManufacturerAndDhcp(EntryDump(data[i]), DhcpIpMap(t), DhcpMacMap(t))
        ELSE [invalid |-> TRUE]]

\* _get_dummy_data
DummyData ==
    [arp |-> << [ip |-> <<"1","9","2",".","1","6","8",".","1",".","1">>,
                 mac |-> <<"a","a",":","b","b",":","c","c",":","d","d",":","e","e",":","f","f">>,
                 intf |-> "em0", manufacturer |-> <<"T","e","s","t","C","o","r","p">>,
                 dhcp_status |-> <<"O","n","l","i","n","e">>] >>,
     ndp |-> << [ip |-> <<"f","e","8","0",":",":","1">>,
                 mac |-> <<"a","a",":","b","b",":","c","c",":","d","d",":","e","e",":","f","f">>,
                 intf |-> "em0", manufacturer |-> <<"T","e","s","t","C","o","r","p">>,
                 dhcp_status |-> <<"O","n","l","i","n","e">>] >>,
     status |-> "success"]

\* `if search_query:`, taken only when no standalone filter is given.
SearchGivenAlone(p) ==
    /\ Truthy(Get(p, "search", None))
    /\ ~Truthy(Get(p, "mac", None))
    /\ ~Truthy(Get(p, "ip", None))
    /\ ~Truthy(Get(p, "ipv6", None))

\* `if search_query:`
SearchGiven(p) == Truthy(Get(p, "search", None))

\* The body of the try block of execute; [raised |-> TRUE] when it raises.
ArpTry(p, t, res) ==
    LET search_query == Get(p, "search", None)
        Ok(a, n) == IF AllValid(a) /\ AllValid(n)
                    THEN [arp |-> a, ndp |-> n, status |-> "success"]
                    ELSE [raised |-> TRUE]
    IN IF SearchGiven(p)
       THEN IF IsSelectAll(search_query)
            THEN Ok(EnrichAll(t.arp, t), EnrichAll(t.ndp, t))
            ELSE LET all_queries == AllQueries(search_query, res)
                 IN Ok(EnrichAll(Matching(t.arp, all_queries), t),
                       EnrichAll(Matching(t.ndp, all_queries), t))
       ELSE LET arp0 == EnrichAll(t.arp, t)
                ndp0 == EnrichAll(t.ndp, t)
                mac_filter == Get(p, "mac", None)
                ip_filter == Get(p, "ip", None)
                ipv6_filter == Get(p, "ipv6", None)
            IN IF ~(AllValid(arp0) /\ AllValid(ndp0)) THEN [raised |-> TRUE]
               ELSE LET arp1 == IF Truthy(mac_filter)
                                THEN WithMac(arp0, Lower(mac_filter)) ELSE arp0
                        ndp1 == IF Truthy(mac_filter)
                                THEN WithMac(ndp0, Lower(mac_filter)) ELSE ndp0
                        arp2 == IF Truthy(ip_filter)
                                THEN WithIp(arp1, ip_filter) ELSE arp1
                        ndp2 == IF Truthy(ipv6_filter)
                                THEN WithIp(ndp1, ipv6_filter) ELSE ndp1
                    IN [arp |-> arp2, ndp |-> ndp2, status |-> "success"]

\* ARPTool.execute with a collaborator whose fetch calls return the tables t
\* and whose resolve_host_info is `res`.
ARPTool_execute(p, t, res) ==
    IF "raised" \in DOMAIN ArpTry(p, t, res) THEN DummyData ELSE ArpTry(p, t, res)

\* Input rows of the ARP check.
Trogdor == <<"t","r","o","g","d","o","r">>
TrogdorPc == <<"t","r","o","g","d","o","r","-","p","c">>
Ip5 == <<"1","0",".","0",".","0",".","5">>
Ip7 == <<"1","0",".","0",".","0",".","7">>
MacT == <<"a","a",":","b","b",":","c","c",":","0","0",":","1","1",":","2","2">>
MacTUpper == <<"A","A",":","B","B",":","C","C",":","0","0",":","1","1",":","2","2">>
MacN == <<"A","A",":","B","B",":","C","C",":","0","0",":","1","1",":","3","3">>
MacFragment == <<"A","A",":","B","B">>

TrogdorLease == [hostname |-> TrogdorPc, ip |-> Ip5, mac |-> MacT, online |-> "False"]
TrogdorEntry == [ip |-> Ip5, mac |-> MacT, intf |-> "em0", hostname |-> None]

NasLease ==
    ("client-hostname" :> <<"n","a","s">>) @@ [address |-> Ip7, mac |-> MacN, online |-> "True"]

ArpLeaseRows == { TrogdorLease, NasLease }

ArpNeighborRows ==
    { TrogdorEntry,
      [ip |-> Ip7, mac |-> MacN, intf |-> "em1"],
      [ip |-> Ip5, mac |-> MacT] }

ArpTaggedRows ==
    ({"dhcpv4", "dhcpv6"} \X ArpLeaseRows) \cup ({"arp", "ndp"} \X ArpNeighborRows)

NoneText == <<"n","o","n","e">>

SearchInputs == { << >>, <<" ">>, <<"*">>, <<" ","*"," ">>, Trogdor, MacFragment, NoneText }

ParamInputs ==
    LET filters == { EmptyDict, [mac |-> MacTUpper], [mac |-> MacFragment],
                     [ip |-> Ip5], [ipv6 |-> Ip5] }
    IN filters \cup {f @@ [search |-> q] : f \in filters, q \in SearchInputs}

\* resolve_host_info: missing from the collaborator, or answering with one of
\* these dicts.
ResolverInputs ==
    { [available |-> FALSE],
      [available |-> TRUE, info |-> EmptyDict],
      [available |-> TRUE, info |-> [ip |-> Ip5, hostname |-> TrogdorPc]],
      [available |-> TRUE, info |-> [dhcpv4 |-> TrogdorLease]],
      [available |-> TRUE, info |-> [dhcpv6 |-> NasLease]] }

InitArp ==
    /\ InitBroker
    /\ \E rows \in SeqsUpTo(ArpTaggedRows, MaxRows) : tables = TablesOf(rows)
    /\ params \in ParamInputs
    /\ resolver \in ResolverInputs
    /\ result = [status |-> "pending"]
    /\ InitDispatcherIdle

ArpCall ==
    /\ result.status = "pending"
    /\ result' = ARPTool_execute(params, tables, resolver)
    /\ UNCHANGED <<tables, params, resolver, opnsense_client, request, response, executed>>
    /\ UNCHANGED brokerVars

NextArp == ArpCall

SpecArp == InitArp /\ [][NextArp]_vars

\* The params of the call with the search key removed.
WithoutSearch(p) == [k \in DOMAIN p \ {"search"} |-> p[k]]

HasSelectAllSearch(p) ==
    /\ "search" \in DOMAIN p
    /\ LStrip(RStrip(p.search)) \in {<< >>, <<"*">>}

NoStandaloneFilter(p) == DOMAIN p \cap {"mac", "ip", "ipv6"} = {}

RowsWellFormed(table) ==
    \A i \in 1..Len(table) : {"mac", "ip", "intf"} \subseteq DOMAIN table[i]

\* C3 as stated: an empty, blank or "*" search returns what the same call
\* without the search parameter returns.
C3_SelectAllAsNoSearch_Original ==
    (result.status # "pending" /\ HasSelectAllSearch(params))
        => /\ result.arp = ARPTool_execute(WithoutSearch(params), tables, resolver).arp
           /\ result.ndp = ARPTool_execute(WithoutSearch(params), tables, resolver).ndp

\* C3, amended: in a call that carries no mac, ip or ipv6 filter, an empty,
\* blank or "*" search returns what the call without the search parameter
\* returns; with well-formed rows that is one entry per row of each table.
C3_SelectAllAsNoSearch ==
    (result.status # "pending" /\ HasSelectAllSearch(params) /\ NoStandaloneFilter(params))
        => /\ result.arp = ARPTool_execute(WithoutSearch(params), tables, resolver).arp
           /\ result.ndp = ARPTool_execute(WithoutSearch(params), tables, resolver).ndp
           /\ (RowsWellFormed(tables.arp) /\ RowsWellFormed(tables.ndp))
                 => /\ Len(result.arp) = Len(tables.arp)
                    /\ Len(result.ndp) = Len(tables.ndp)

C3_Witness ==
    /\ result.status # "pending"
    /\ params = [search |-> <<" ","*"," ">>]
    /\ Len(tables.arp) = 2
    /\ Len(result.arp) = 2
    /\ result.arp[1].ip # result.arp[2].ip

\* The snapshot of the example: one lease, one neighbour entry, a search for
\* "trogdor".
TrogdorScenario ==
    /\ result.status # "pending"
    /\ tables = [arp |-> <<TrogdorEntry>>, ndp |-> << >>,
                 dhcpv4 |-> <<TrogdorLease>>, dhcpv6 |-> << >>]
    /\ params = [search |-> Trogdor]

ReturnsTrogdorEntry ==
    \E i \in 1..Len(result.arp) : result.arp[i].ip = Ip5 /\ result.arp[i].mac = MacT

\* resolve_host_info exists and answers with the lease's ip or mac.
ResolvesToLease ==
    /\ resolver.available
    /\ \/ Get(resolver.info, "ip", None) = Ip5
       \/ Get(resolver.info, "mac", None) = MacT
       \/ /\ "dhcpv4" \in DOMAIN resolver.info
          /\ \/ Get(resolver.info["dhcpv4"], "ip", None) = Ip5
             \/ Get(resolver.info["dhcpv4"], "mac", None) = MacT

\* C4 as stated: in the example's snapshot the search for "trogdor" returns the
\* neighbour entry.
C4_HostnameFindsEntry_Original == TrogdorScenario => ReturnsTrogdorEntry

\* C4, amended: it does when the collaborator has resolve_host_info and that
\* answers the query with the lease's ip or mac.
C4_HostnameFindsEntry == (TrogdorScenario /\ ResolvesToLease) => ReturnsTrogdorEntry

C4_Witness ==
    /\ TrogdorScenario
    /\ resolver = [available |-> TRUE, info |-> [dhcpv4 |-> TrogdorLease]]
    /\ Len(result.arp) = 1
    /\ result.arp[1].hostname = TrogdorPc

----------------------------------------------------------------------------
(* The tools with an absent or failing collaborator *)

\* The four table fetches of the collaborator.
FetchCalls == {"get_arp_table", "get_ndp_table", "get_dhcpv4_leases", "get_dhcpv6_leases"}

\* The collaborator: absent (None), or present with the calls that raise when
\* made.  others_raise tells whether the execute of a tool whose code lies
\* outside these sources raises.
ClientInputs ==
    { [present |-> FALSE, failing |-> {}, others_raise |-> r] : r \in BOOLEAN }
    \cup { WorkingClient, [WorkingClient EXCEPT !.others_raise = TRUE] }
    \cup { [WorkingClient EXCEPT !.failing = {m}] :
              m \in FetchCalls \cup {"resolve_host_info", "get_system_status"} }

\* DHCPTool._get_dummy_data
DhcpDummyData ==
    [dhcpv4 |-> << [ip |-> <<"1","9","2",".","1","6","8",".","1",".","1","0","0">>,
                    mac |-> <<"0","0",":","1","1",":","2","2",":","3","3",":","4","4",":","5","5">>,
                    hostname |-> <<"d","u","m","m","y","-","c","l","i","e","n","t">>,
                    online |-> "True",
                    actual_status |-> <<"O","n","l","i","n","e">>] >>,
     dhcpv6 |-> << [ip |-> <<"2","0","0","1",":","d","b","8",":",":","1","0","0">>,
                    mac |-> <<"0","0",":","1","1",":","2","2",":","3","3",":","4","4",":","6","6">>,
                    hostname |-> <<"d","u","m","m","y","6","-","c","l","i","e","n","t">>,
                    online |-> "True",
                    actual_status |-> <<"O","n","l","i","n","e">>] >>,
     status |-> "dummy"]

\* The return of DHCPTool.execute's except clause.
DhcpErrorResult ==
    [dhcpv4 |-> << >>, dhcpv6 |-> << >>, status |-> "error",
     dhcp_status |-> "Error retrieving DHCP leases"]

\* DHCPTool.execute without its except clause: a raising fetch propagates.
DhcpExecuteNoExcept(cl, t) ==
    IF ~cl.present THEN DhcpDummyData
    ELSE IF cl.failing \cap FetchCalls # {} THEN [raised |-> TRUE]
    ELSE DHCPTool_execute(t)

\* DHCPTool.execute with the collaborator cl.
DhcpExecute(cl, t) ==
    IF ~cl.present THEN DhcpDummyData
    ELSE IF cl.failing \cap FetchCalls # {} THEN DhcpErrorResult
    ELSE DHCPTool_execute(t)

\* execute reaches resolve_host_info: a search that is not a select-all,
\* on a collaborator that has the method.
CallsResolver(p, res) ==
    /\ Truthy(Get(p, "search", None))
    /\ ~IsSelectAll(Get(p, "search", None))
    /\ res.available

\* ARPTool.execute with the collaborator cl.
ArpExecute(cl, p, t, res) ==
    IF ~cl.present THEN DummyData
    ELSE IF cl.failing \cap FetchCalls # {} THEN DummyData
    ELSE IF "resolve_host_info" \in cl.failing /\ CallsResolver(p, res) THEN DummyData
    ELSE ARPTool_execute(p, t, res)

\* What get_system_status returns; the tool hands it on as it is.
SystemStatusData ==
    [cpu_usage |-> "12.5", memory_usage |-> "40.0", uptime |-> "1 day"]

\* SystemTool.execute with the None test returning before the call.
SystemToolReturnsMock(cl) ==
    IF ~cl.present THEN SystemStatusData
    ELSE IF "get_system_status" \in cl.failing
    THEN [error |-> "Failed to get system status", status |-> "error"]
    ELSE SystemStatusData

\* SystemTool.execute with the collaborator cl.  With None the call
\* self.client.get_system_status() raises AttributeError inside the try.
SystemTool_execute(cl) ==
    IF ~cl.present \/ "get_system_status" \in cl.failing
    THEN [error |-> "Failed to get system status", status |-> "error"]
    ELSE SystemStatusData

----------------------------------------------------------------------------
(* ToolDispatcher: call_tool and jsonrpc_endpoint of server_sse.py *)

\* The names of the if-chain of call_tool whose tools are modelled above.
ModelledTools == {"arp", "dhcp", "system"}
\* The names of the if-chain whose tools lie outside these sources.
OtherTools == {"get_logs", "lldp", "fw_rules", "mkfw_rule", "rmfw_rule", "interface_list"}
CallableTools == ModelledTools \cup OtherTools

\* The names list_tools advertises, in order.
ToolCatalog ==
    <<"get_logs", "arp", "dhcp", "lldp", "system", "fw_rules", "mkfw_rule",
      "rmfw_rule", "interface_list">>

\* JSON-RPC error codes used by jsonrpc_endpoint.
MethodNotFound == -32601
InvalidParams == -32602
InternalError == -32603

\* str(result): the text of a value; equal texts come from equal values.
StrOfResult(v) == [str_of |-> v]

\* The execute of the named tool: the dict it returns, or [raised |-> TRUE].
ExecuteTool(tool_name, arguments, cl, t, res) ==
    IF tool_name = "arp" THEN ArpExecute(cl, arguments, t, res)
    ELSE IF tool_name = "dhcp" THEN DhcpExecute(cl, t)
    ELSE IF tool_name = "system" THEN SystemTool_execute(cl)
    ELSE IF cl.others_raise THEN [raised |-> TRUE]
    ELSE [tool |-> tool_name, output |-> "ok"]

\* A branch of call_tool's if-chain, given the outcome r of the tool's
\* execute: the raise goes on, the returned dict is wrapped as one text block.
ContentOf(r) ==
    IF "raised" \in DOMAIN r
    THEN [raises |-> "Exception", cause |-> "tool raised"]
    ELSE [returns |-> [content |-> << [type |-> "text", text |-> StrOfResult(r)] >>]]

\* The try block of call_tool: what it returns or raises.
CallToolTry(tool_name, arguments, cl, t, res) ==
    IF tool_name \in CallableTools
    THEN ContentOf(ExecuteTool(tool_name, arguments, cl, t, res))
    ELSE [raises |-> "HTTPException", status_code |-> 404, cause |-> "Tool not found",
          detail |-> [text |-> "Tool not found", cause |-> tool_name]]

\* call_tool without its except clause.
call_tool_noexcept(tool_name, arguments, cl, t, res) ==
    CallToolTry(tool_name, arguments, cl, t, res)

\* The except clause of call_tool, given the outcome r of its try block:
\* `except Exception` catches whatever was raised, the HTTPException of the
\* else branch included, and raises HTTPException(500).
ExceptException(r) ==
    IF "raises" \in DOMAIN r
    THEN [raises |-> "HTTPException", status_code |-> 500,
          detail |-> [text |-> "Error executing tool", cause |-> r.cause]]
    ELSE r

\* call_tool
call_tool(tool_name, arguments, cl, t, res) ==
    ExceptException(CallToolTry(tool_name, arguments, cl, t, res))

\* The HTTP answer the framework makes of what an endpoint returned or raised.
HttpResponse(r) ==
    IF "returns" \in DOMAIN r THEN [status |-> 200, body |-> r.returns]
    ELSE IF r.raises = "HTTPException"
    THEN [status |-> r.status_code, body |-> [detail |-> r.detail]]
    ELSE [status |-> 500, body |-> [uncaught |-> r.raises]]

\* params.get("name") reads the name, with no fallback to "tool".
ToolNameOfNameOnly(prm) == Get(prm, "name", "")
\* params.get("name") or params.get("tool"); "" stands for a falsy value.
ToolNameOf(prm) ==
    IF Get(prm, "name", "") # "" THEN prm.name ELSE Get(prm, "tool", "")

\* params.get("arguments") or params.get("args") or {}
ArgumentsOf(prm) ==
    IF Get(prm, "arguments", EmptyDict) # EmptyDict THEN prm.arguments
    ELSE IF Get(prm, "args", EmptyDict) # EmptyDict THEN prm.args
    ELSE EmptyDict

\* The test `not tool_name` always failing.
MissingToolNameNever(tool_name) == FALSE
\* not tool_name
MissingToolName(tool_name) == tool_name = ""

\* list_tools
ListTools == [tools |-> ToolCatalog]

\* The protocol version initialize answers with.
ProtocolVersionOf(prm) ==
    IF Get(prm, "protocolVersion", "") \in {"", "undefined"}
    THEN "2024-11-05" ELSE prm.protocolVersion

\* An error response that does not echo the id of the request.
RpcErrorNullId(msg_id, code, message) ==
    [jsonrpc |-> "2.0", id |-> "null", error |-> [code |-> code, message |-> message]]

\* The JSON-RPC responses.
RpcError(msg_id, code, message) ==
    [jsonrpc |-> "2.0", id |-> msg_id, error |-> [code |-> code, message |-> message]]
RpcResult(msg_id, r) == [jsonrpc |-> "2.0", id |-> msg_id, result |-> r]

\* The tools/call branch after the name test, given the outcome r of
\* call_tool: its return is the result, its HTTPException an error whose code
\* depends on the status, anything else goes to the outer except clause.
RpcOfCall(msg_id, r) ==
    IF "returns" \in DOMAIN r THEN RpcResult(msg_id, r.returns)
    ELSE IF r.raises = "HTTPException"
    THEN RpcError(msg_id, IF r.status_code = 404 THEN MethodNotFound ELSE InternalError,
                  r.detail)
    ELSE RpcError(msg_id, InternalError, [text |-> "Internal error", cause |-> r.cause])

\* jsonrpc_endpoint: the dict it returns.
jsonrpc_endpoint(req, cl, t, res) ==
    LET method == req.method
        prm == Get(req, "params", EmptyDict)
        Error(code, message) == RpcError(req.id, code, message)
        Result(r) == RpcResult(req.id, r)
    IN IF method = "initialize"
       THEN Result([protocolVersion |-> ProtocolVersionOf(prm),
                    serverInfo |-> [name |-> "opnsense-mcp", version |-> "1.0.0"],
                    capabilities |-> [tools |-> [listChanged |-> FALSE]]])
       ELSE IF method \in {"tools/list", "ListOfferings"}
       THEN Result(ListTools)
       ELSE IF method \in {"tools/call", "tool/call"}
       THEN IF MissingToolName(ToolNameOf(prm))
            THEN Error(InvalidParams,
                       [text |-> "Invalid params: tool name is required", cause |-> ""])
            ELSE RpcOfCall(req.id, call_tool(ToolNameOf(prm), ArgumentsOf(prm), cl, t, res))
       ELSE Error(MethodNotFound, [text |-> "Method not found", cause |-> method])

\* The tool a call to jsonrpc_endpoint hands to call_tool, if any.
RpcDispatches(req) ==
    /\ req.method \in {"tools/call", "tool/call"}
    /\ ~MissingToolName(ToolNameOf(Get(req, "params", EmptyDict)))

\* Inputs of the dispatcher check.
ArgumentInputs == { EmptyDict, [search |-> Trogdor], [mac |-> MacTUpper] }
RequestedNames == CallableTools \cup {"nope"}

DirectRequests ==
    { [kind |-> "direct", tool_name |-> n, arguments |-> a] :
         n \in RequestedNames, a \in ArgumentInputs }

\* params of tools/call: the name under either key, the arguments under
\* either key or left out; then params with no usable name, and params where
\* a falsy first spelling falls back to the second.
CallParamInputs ==
    { (nk :> n) @@ (ak :> a) :
         nk \in {"name", "tool"}, n \in RequestedNames,
         ak \in {"arguments", "args"}, a \in ArgumentInputs }
    \cup { [name |-> "arp"], [tool |-> "dhcp"] }
    \cup { EmptyDict, [arguments |-> [search |-> Trogdor]], [name |-> ""], [tool |-> ""],
           [name |-> "", tool |-> ""], [name |-> "", args |-> [mac |-> MacTUpper]] }
    \cup { [name |-> "", tool |-> "arp"],
           [name |-> "arp", arguments |-> EmptyDict, args |-> [search |-> Trogdor]] }

RequestIds == {"1", "null"}

JsonRpcRequests ==
    { [kind |-> "jsonrpc", id |-> i, method |-> m, params |-> prm] :
         i \in RequestIds, m \in {"tools/call", "tool/call"}, prm \in CallParamInputs }
    \cup { [kind |-> "jsonrpc", id |-> i, method |-> m] :
              i \in RequestIds,
              m \in {"initialize", "tools/list", "ListOfferings", "tools/call", "resources/list"} }
    \cup { [kind |-> "jsonrpc", id |-> "1", method |-> "initialize",
            params |-> [protocolVersion |-> v]] : v \in {"undefined", "2025-03-26"} }

\* Snapshots the tools read in the dispatcher check: empty tables, the
\* trogdor example, and a neighbor row without its interface.
SnapshotInputs ==
    { TablesOf(<< >>),
      TablesOf(<< <<"arp", TrogdorEntry>>, <<"dhcpv4", TrogdorLease>> >>),
      TablesOf(<< <<"arp", [ip |-> Ip5, mac |-> MacT]>>, <<"dhcpv4", TrogdorLease>> >>) }

InitRpc ==
    /\ InitBroker
    /\ tables \in SnapshotInputs
    /\ params = EmptyDict
    /\ resolver \in { [available |-> FALSE],
                      [available |-> TRUE, info |-> [dhcpv4 |-> TrogdorLease]] }
    /\ result = [status |-> "pending"]
    /\ opnsense_client \in ClientInputs
    /\ request \in DirectRequests \cup JsonRpcRequests
    /\ response = [pending |-> TRUE]
    /\ executed = << >>

\* What the variable result holds after the execute of a tool.
Returned(r) == IF "raised" \in DOMAIN r THEN [status |-> "raised"] ELSE r

\* The dispatcher enters the execute of tool_name with these arguments.
Enter(tool_name, arguments) ==
    IF tool_name \in CallableTools
    THEN /\ executed' = Append(executed, tool_name)
         /\ params' = arguments
         /\ result' = Returned(ExecuteTool(tool_name, arguments, opnsense_client,
                                           tables, resolver))
    ELSE UNCHANGED <<executed, params, result>>

\* POST /tool/{tool_name}
PostTool ==
    /\ request.kind = "direct"
    /\ "pending" \in DOMAIN response
    /\ response' = HttpResponse(call_tool(request.tool_name, request.arguments,
                                          opnsense_client, tables, resolver))
    /\ Enter(request.tool_name, request.arguments)
    /\ UNCHANGED <<tables, resolver, opnsense_client, request>>
    /\ UNCHANGED brokerVars

\* POST /jsonrpc
PostJsonrpc ==
    /\ request.kind = "jsonrpc"
    /\ "pending" \in DOMAIN response
    /\ response' = HttpResponse([returns |->
                        jsonrpc_endpoint(request, opnsense_client, tables, resolver)])
    /\ IF RpcDispatches(request)
       THEN Enter(ToolNameOf(Get(request, "params", EmptyDict)),
                  ArgumentsOf(Get(request, "params", EmptyDict)))
       ELSE UNCHANGED <<executed, params, result>>
    /\ UNCHANGED <<tables, resolver, opnsense_client, request>>
    /\ UNCHANGED brokerVars

NextRpc == PostTool \/ PostJsonrpc

SpecRpc == InitRpc /\ [][NextRpc]_vars

----------------------------------------------------------------------------
(* Properties of the dispatcher *)

Answered == "status" \in DOMAIN response

IsDirect == request.kind = "direct"
IsToolsCall == request.kind = "jsonrpc" /\ request.method \in {"tools/call", "tool/call"}

\* The tool name and the arguments a request asks for.
RequestedTool ==
    IF IsDirect THEN request.tool_name ELSE ToolNameOf(Get(request, "params", EmptyDict))
RequestedArguments ==
    IF IsDirect THEN request.arguments ELSE ArgumentsOf(Get(request, "params", EmptyDict))

RpcErrorCode ==
    IF "error" \in DOMAIN response.body THEN response.body.error.code ELSE 0

\* C12: a call that names a tool outside the if-chain of call_tool is answered
\* with HTTP 404 on POST /tool/{name} and with JSON-RPC error -32601 on
\* tools/call.
C12_UnknownToolNotFound ==
    (Answered /\ RequestedTool \notin CallableTools \cup {""})
        => /\ IsDirect => response.status = 404
           /\ IsToolsCall => RpcErrorCode = MethodNotFound

\* C13: a tools/call or tool/call whose params carry no tool name, neither
\* under name nor under tool, is answered with error -32602 and no tool's
\* execute is entered.
C13_MissingNameInvalidParams ==
    (Answered /\ IsToolsCall
       /\ Get(Get(request, "params", EmptyDict), "name", "") = ""
       /\ Get(Get(request, "params", EmptyDict), "tool", "") = "")
        => /\ response.status = 200
           /\ RpcErrorCode = InvalidParams
           /\ "result" \notin DOMAIN response.body
           /\ executed = << >>
           /\ result = [status |-> "pending"]

C13_Witness ==
    /\ Answered
    /\ IsToolsCall
    /\ Get(request, "params", EmptyDict) = [name |-> "", args |-> [mac |-> MacTUpper]]
    /\ RpcErrorCode = InvalidParams
    /\ executed = << >>

\* The execute of the requested tool was entered and raised.
ToolRaised == executed # << >> /\ result = [status |-> "raised"]

\* C14: when the execute of a known tool raises, call_tool catches it and
\* answers 500 with its "Error executing tool" detail on the direct path, and
\* jsonrpc_endpoint answers error -32603; and every JSON-RPC request, whatever
\* happens, gets a JSON-RPC response object carrying its id and either a
\* result or an error.
C14_FailuresMapped ==
    Answered =>
        /\ (ToolRaised /\ IsDirect) =>
              /\ response.status = 500
              /\ "detail" \in DOMAIN response.body
              /\ response.body.detail = [text |-> "Error executing tool", cause |-> "tool raised"]
        /\ (ToolRaised /\ IsToolsCall) =>
              /\ RpcErrorCode = InternalError
              /\ response.body.error.message.text = "Error executing tool"
        /\ request.kind = "jsonrpc" =>
              /\ response.status = 200
              /\ {"jsonrpc", "id"} \subseteq DOMAIN response.body
              /\ response.body.jsonrpc = "2.0"
              /\ response.body.id = request.id
              /\ ("result" \in DOMAIN response.body) # ("error" \in DOMAIN response.body)

C14_Witness ==
    /\ Answered
    /\ IsToolsCall
    /\ RequestedTool = "lldp"
    /\ opnsense_client.others_raise
    /\ ToolRaised
    /\ RpcErrorCode = InternalError

\* What POST /tool/{n} answers for the arguments a in the current environment.
DirectAnswer(n, a) == HttpResponse(call_tool(n, a, opnsense_client, tables, resolver))

\* C15: a tools/call or tool/call that names a tool of the if-chain under
\* `name` or under `tool`, with its arguments under `arguments` or under
\* `args` (or with none), has as its result the body POST /tool/{name} answers
\* for the same tool and arguments: one text block holding str() of what the
\* tool returned.
C15_SameExecution ==
    (Answered /\ IsToolsCall) =>
        \A nk \in {"name", "tool"}, ak \in {"arguments", "args"} :
            LET prm == Get(request, "params", EmptyDict)
            IN (nk \in DOMAIN prm /\ DOMAIN prm \subseteq {nk, ak}
                  /\ prm[nk] \in CallableTools
                  /\ DirectAnswer(prm[nk], Get(prm, ak, EmptyDict)).status = 200)
                   => /\ "result" \in DOMAIN response.body
                      /\ response.body.result =
                            DirectAnswer(prm[nk], Get(prm, ak, EmptyDict)).body
                      /\ executed = <<prm[nk]>>
                      /\ response.body.result.content =
                            << [type |-> "text", text |-> StrOfResult(result)] >>

C15_Witness ==
    /\ Answered
    /\ request.kind = "jsonrpc"
    /\ request.method = "tool/call"
    /\ Get(request, "params", EmptyDict) = [tool |-> "arp", args |-> [search |-> Trogdor]]
    /\ tables.arp = <<TrogdorEntry>>
    /\ resolver.available
    /\ opnsense_client = WorkingClient
    /\ "result" \in DOMAIN response.body
    /\ result.arp # << >>

FetchRaises ==
    /\ opnsense_client.present
    /\ \/ opnsense_client.failing \cap FetchCalls # {}
       \/ /\ RequestedTool = "arp"
          /\ "resolve_host_info" \in opnsense_client.failing
          /\ CallsResolver(RequestedArguments, resolver)

\* C17: when a fetch call that ARPTool.execute or DHCPTool.execute makes
\* raises, the execute returns all the same: arp its canned sample, dhcp empty
\* dhcpv4 and dhcpv6 tables with status "error"; the dispatcher answers 200
\* with a content result, not with an error.
C17_FetchFailureDegrades ==
    (Answered /\ (IsDirect \/ IsToolsCall) /\ RequestedTool \in {"arp", "dhcp"} /\ FetchRaises)
        => /\ executed = <<RequestedTool>>
           /\ RequestedTool = "arp" => result = DummyData
           /\ RequestedTool = "dhcp" =>
                 /\ result.status = "error"
                 /\ result.dhcpv4 = << >>
                 /\ result.dhcpv6 = << >>
           /\ response.status = 200
           /\ IsDirect => response.body.content[1].text = StrOfResult(result)
           /\ IsToolsCall => /\ "result" \in DOMAIN response.body
                             /\ response.body.result.content[1].text = StrOfResult(result)

C17_Witness ==
    /\ Answered
    /\ IsToolsCall
    /\ RequestedTool = "dhcp"
    /\ opnsense_client.failing = {"get_ndp_table"}
    /\ tables.dhcpv4 # << >>
    /\ result.status = "error"
    /\ "result" \in DOMAIN response.body

----------------------------------------------------------------------------
(* Properties of the tools on malformed rows and of the arp filters *)

\* C18: a lease row that lacks its ip or its mac does not abort the
\* reconciliation: every lease row of the snapshot yields a record at its
\* place in the result, and a well-formed row yields its ip and mac.
C18_MalformedRowsTolerated ==
    result.status # "pending" =>
        \A family \in {"dhcpv4", "dhcpv6"} :
            /\ Len(result[family]) = Len(tables[family])
            /\ \A i \in 1..Len(tables[family]) :
                  LET normalized == NormalizeLeaseEntry(tables[family][i])
                  IN LeaseValid(normalized) =>
                        /\ result[family][i].ip = normalized.ip
                        /\ result[family][i].mac = normalized.mac

\* The call is a filtered search: the search value is neither empty, blank
\* nor "*".
IsFilteredSearch(p) ==
    /\ Truthy(Get(p, "search", None))
    /\ LStrip(RStrip(p.search)) \notin {<< >>, <<"*">>}

\* Some token is a substring of the lower-cased ip, mac or hostname the row
\* holds; a key that is absent or null holds nothing.
HeldFieldMatches(row, tokens) ==
    \E q \in tokens, k \in {"ip", "mac", "hostname"} :
        /\ k \in DOMAIN row
        /\ row[k] # None
        /\ Contains(Lower(row[k]), q)

RowsHeldMatching(table, tokens) ==
    SelectAt(table, {i \in 1..Len(table) : HeldFieldMatches(table[i], tokens)}, 1)

\* C19: a filtered search returns exactly the rows of which some token is a
\* substring of the lower-cased ip, mac or hostname the row holds; a row whose
\* hostname is absent or null is returned only for its ip or mac.
C19_MatchOnHeldFields ==
    (result.status # "pending" /\ IsFilteredSearch(params)
       /\ RowsWellFormed(tables.arp) /\ RowsWellFormed(tables.ndp))
        => /\ result.arp =
                 EnrichAll(RowsHeldMatching(tables.arp, AllQueries(params.search, resolver)),
                           tables)
           /\ result.ndp =
                 EnrichAll(RowsHeldMatching(tables.ndp, AllQueries(params.search, resolver)),
                           tables)

\* The rows whose mac equals M when case is ignored.
RowsWithMac(table, M) ==
    SelectAt(table, {i \in 1..Len(table) : Lower(table[i].mac) = Lower(M)}, 1)

\* What a search for the fragment returns on the snapshot of the state.
FragmentSearch == ARPTool_execute([search |-> MacFragment], tables, resolver)

\* C20: a call with the mac filter M alone returns, of each table, exactly
\* the entries whose mac equals M ignoring case; a search for a fragment of a
\* mac returns every entry whose mac contains the fragment ignoring case.
C20_MacEqualitySearchSubstring ==
    (result.status # "pending" /\ DOMAIN params = {"mac"}
       /\ RowsWellFormed(tables.arp) /\ RowsWellFormed(tables.ndp))
        => /\ result.arp = EnrichAll(RowsWithMac(tables.arp, params.mac), tables)
           /\ result.ndp = EnrichAll(RowsWithMac(tables.ndp, params.mac), tables)
           /\ \A name \in {"arp", "ndp"} :
                 \A i \in 1..Len(tables[name]) :
                     Contains(Lower(tables[name][i].mac), Lower(MacFragment))
                        => \E j \in 1..Len(FragmentSearch[name]) :
                              /\ FragmentSearch[name][j].ip = tables[name][i].ip
                              /\ FragmentSearch[name][j].mac = tables[name][i].mac

\* The mac filter returns the one entry with that mac, the search for the
\* fragment both entries, and the fragment as a mac filter none.
C20_Witness ==
    /\ result.status # "pending"
    /\ params = [mac |-> MacTUpper]
    /\ tables.arp = <<TrogdorEntry, [ip |-> Ip7, mac |-> MacN, intf |-> "em1"]>>
    /\ Len(result.arp) = 1
    /\ result.arp[1].mac = MacT
    /\ Len(FragmentSearch.arp) = 2
    /\ ARPTool_execute([mac |-> MacFragment], tables, resolver).arp = << >>

----------------------------------------------------------------------------
(* Properties of the search token set *)

\* The row is among the entries returned for its table.
EntryReturned(entries, row) ==
    \E j \in 1..Len(entries) : entries[j].ip = row.ip /\ entries[j].mac = row.mac

\* C21: in a filtered search the token set holds the raw query lower-cased,
\* with or without resolve_host_info and whatever it answers; so every row
\* whose ip or mac contains the lower-cased query is returned.
C21_RawQueryIsToken ==
    (result.status # "pending" /\ IsFilteredSearch(params))
        => /\ Lower(params.search) \in AllQueries(params.search, resolver)
           /\ (RowsWellFormed(tables.arp) /\ RowsWellFormed(tables.ndp)) =>
                 \A name \in {"arp", "ndp"} :
                     \A i \in 1..Len(tables[name]) :
                         (\/ Contains(Lower(tables[name][i].ip), Lower(params.search))
                          \/ Contains(Lower(tables[name][i].mac), Lower(params.search)))
                            => EntryReturned(result[name], tables[name][i])

\* The resolver answers with identifiers of another host; the row is found
\* through the raw query alone.
C21_Witness ==
    /\ result.status # "pending"
    /\ params = [search |-> MacFragment]
    /\ resolver = [available |-> TRUE, info |-> [ip |-> Ip5, hostname |-> TrogdorPc]]
    /\ tables.arp = << [ip |-> Ip7, mac |-> MacN, intf |-> "em1"] >>
    /\ Len(result.arp) = 1
    /\ result.arp[1].mac = MacN

\* The identifiers an answer of resolve_host_info holds: its ip, mac and
\* hostname, and the ip (or address), mac and hostname (or client-hostname)
\* of a lease nested under dhcpv4 or under dhcpv6.
NestedIdentifiers(info, family) ==
    IF family \notin DOMAIN info THEN {}
    ELSE { Or(Get(info[family], "ip", None), Get(info[family], "address", None)),
           Get(info[family], "mac", None),
           Or(Get(info[family], "hostname", None), Get(info[family], "client-hostname", None)) }

ReturnedIdentifiers(info) ==
    {v \in {Get(info, k, None) : k \in {"ip", "mac", "hostname"}}
           \cup NestedIdentifiers(info, "dhcpv4") \cup NestedIdentifiers(info, "dhcpv6") :
        Truthy(v)}

\* C22: in a filtered search with resolve_host_info, the token set is the
\* lower-cased union of the raw query with every identifier of the answer,
\* those nested under a lease of either family included.
C22_AllResolvedIdentifiers ==
    (result.status # "pending" /\ IsFilteredSearch(params) /\ resolver.available)
        => AllQueries(params.search, resolver) =
              {Lower(v) : v \in {params.search} \cup ReturnedIdentifiers(resolver.info)}

----------------------------------------------------------------------------
(* Enrichment of neighbor entries from the leases: _fill_manufacturer_and_dhcp *)

Ip9 == <<"1","0",".","0",".","0",".","9">>
Router == <<"r","o","u","t","e","r">>

\* A lease that carries no name and has the ip of the trogdor lease.
UnnamedLease == [ip |-> Ip5, mac |-> MacN, online |-> "True"]

EnrichLeaseRows == { TrogdorLease, NasLease, UnnamedLease }

\* Neighbor rows: a null hostname, no hostname key, a hostname of its own, and
\* a row that shares only its mac, in upper case, with the trogdor lease.
EnrichNeighborRows ==
    { TrogdorEntry,
      [ip |-> Ip7, mac |-> MacN, intf |-> "em1"],
      [ip |-> Ip5, mac |-> MacT, intf |-> "em0", hostname |-> Router],
      [ip |-> Ip9, mac |-> MacTUpper, intf |-> "em0"] }

\* Up to MaxRows leases and up to MaxNeighbors neighbor rows.
InitEnrich ==
    /\ InitBroker
    /\ \E leases \in SeqsUpTo({"dhcpv4", "dhcpv6"} \X EnrichLeaseRows, MaxRows),
          neighbors \in SeqsUpTo({"arp", "ndp"} \X EnrichNeighborRows, MaxNeighbors) :
          tables = TablesOf(leases \o neighbors)
    /\ params = EmptyDict
    /\ resolver = [available |-> FALSE]
    /\ result = [status |-> "pending"]
    /\ InitDispatcherIdle

SpecEnrich == InitEnrich /\ [][NextArp]_vars

\* The leases in the order the maps are filled: dhcpv4, then dhcpv6.
AllLeases == tables.dhcpv4 \o tables.dhcpv6

\* The positions of the leases with the row's ip, and with the row's mac
\* ignoring case.
LeasesByIp(row) ==
    {i \in 1..Len(AllLeases) :
        Or(Get(AllLeases[i], "ip", None), Get(AllLeases[i], "address", None)) = row.ip}
LeasesByMac(row) ==
    {i \in 1..Len(AllLeases) :
        /\ "mac" \in DOMAIN AllLeases[i]
        /\ Lower(AllLeases[i].mac) = Lower(row.mac)}

Last(S) == CHOOSE i \in S : \A j \in S : j <= i

\* The lease the lookup finds for a row: the last one listed with its ip, or,
\* when none has its ip, the last one with its mac.
HasFoundLease(row) == LeasesByIp(row) \cup LeasesByMac(row) # {}
FoundLease(row) ==
    IF LeasesByIp(row) # {} THEN AllLeases[Last(LeasesByIp(row))]
    ELSE AllLeases[Last(LeasesByMac(row))]

NameIn(lease) ==
    IF "hostname" \in DOMAIN lease /\ Truthy(lease.hostname) THEN lease.hostname
    ELSE IF "client-hostname" \in DOMAIN lease THEN lease["client-hostname"]
    ELSE None

\* The entry enrichHost makes of a well-formed row of the snapshot.
Enriched(row) ==
    FillManufacturerAndDhcp(EntryDump(row), DhcpIpMap(tables), DhcpMacMap(tables))

\* The rows of both neighbor tables that pass validation.
ValidRows == {r \in Range(tables.arp) \cup Range(tables.ndp) : EntryValid(r)}

\* With well-formed tables a call without parameters returns the enriched
\* rows, one per row.
ResultIsEnrichedRows ==
    (result.status # "pending" /\ RowsWellFormed(tables.arp) /\ RowsWellFormed(tables.ndp))
        => /\ result.arp = [i \in 1..Len(tables.arp) |-> Enriched(tables.arp[i])]
           /\ result.ndp = [i \in 1..Len(tables.ndp) |-> Enriched(tables.ndp[i])]

HasNoHostname(row) == ~Truthy(Get(row, "hostname", None))

\* C23 as stated: an entry that has a hostname keeps it; an entry without one
\* gets a hostname whenever some lease with its ip or its mac carries one.
C23_HostnameFromLease_Original ==
    result.status # "pending" =>
        \A r \in ValidRows :
            /\ ~HasNoHostname(r) => Enriched(r).hostname = r.hostname
            /\ (HasNoHostname(r)
                  /\ \E i \in LeasesByIp(r) \cup LeasesByMac(r) : Truthy(NameIn(AllLeases[i])))
                   => \E i \in LeasesByIp(r) \cup LeasesByMac(r) :
                         /\ Truthy(NameIn(AllLeases[i]))
                         /\ Enriched(r).hostname = NameIn(AllLeases[i])

\* C23, amended: an entry that has a hostname keeps it; an entry without one
\* gets the name (hostname, else client-hostname) of the one lease the lookup
\* finds, which is the last lease listed with its ip or, when no lease has its ip,
\* the last with its mac ignoring case; when that lease carries no name, or no
\* lease is found, the entry stays without a hostname.
C23_HostnameFromLease ==
    /\ ResultIsEnrichedRows
    /\ result.status # "pending" =>
          \A r \in ValidRows :
              /\ ~HasNoHostname(r) => Enriched(r).hostname = r.hostname
              /\ (HasNoHostname(r) /\ HasFoundLease(r) /\ Truthy(NameIn(FoundLease(r))))
                     => Enriched(r).hostname = NameIn(FoundLease(r))
              /\ (HasNoHostname(r) /\ ~(HasFoundLease(r) /\ Truthy(NameIn(FoundLease(r)))))
                     => ~Truthy(Enriched(r).hostname)

\* An entry without hostname is named from a lease that shares only its mac,
\* written in the other case.
C23_Witness ==
    /\ result.status # "pending"
    /\ tables.arp = << [ip |-> Ip9, mac |-> MacTUpper, intf |-> "em0"] >>
    /\ tables.dhcpv4 = <<TrogdorLease>>
    /\ tables.dhcpv6 = << >>
    /\ result.arp[1].hostname = TrogdorPc

\* C24: the dhcp_status of an entry is "Online" when the online flag of the
\* lease the lookup finds is true and "Offline" otherwise, although the entry
\* is present in the neighbor table; when no lease has its ip or its mac the
\* entry has no dhcp_status.
C24_DhcpStatusFromRawFlag ==
    /\ ResultIsEnrichedRows
    /\ result.status # "pending" =>
          \A r \in ValidRows :
              IF HasFoundLease(r)
              THEN Enriched(r).dhcp_status =
                      IF Get(FoundLease(r), "online", "None") = "True"
                      THEN <<"O","n","l","i","n","e">>
                      ELSE <<"O","f","f","l","i","n","e">>
              ELSE Enriched(r).dhcp_status = None

\* The neighbor table holds the host and its lease is flagged offline.
C24_Witness ==
    /\ result.status # "pending"
    /\ tables.arp = <<TrogdorEntry>>
    /\ tables.dhcpv4 = <<TrogdorLease>>
    /\ tables.dhcpv6 = << >>
    /\ result.arp[1].dhcp_status = <<"O","f","f","l","i","n","e">>


----------------------------------------------------------------------------
(* The lease lookup called with a search, and the case of MAC addresses *)

\* A lease of a host other than trogdor, whose mac is trogdor's in upper case.
UpperLease == [hostname |-> Router, ip |-> Ip9, mac |-> MacTUpper, online |-> "False"]

LookupLeaseRows == { TrogdorLease, NasLease, UpperLease }

LookupNeighborRows == { TrogdorEntry, [ip |-> Ip7, mac |-> MacN, intf |-> "em1"] }

\* The arguments of a dhcp call: none, a search for trogdor, the wildcard.
LookupParams == { EmptyDict, [search |-> Trogdor], [search |-> <<"*">>] }

InitLookup ==
    /\ InitBroker
    /\ \E leases \in SeqsUpTo({"dhcpv4", "dhcpv6"} \X LookupLeaseRows, MaxRows),
          neighbors \in SeqsUpTo({"arp", "ndp"} \X LookupNeighborRows, MaxNeighbors) :
          tables = TablesOf(leases \o neighbors)
    /\ params \in LookupParams
    /\ resolver = [available |-> FALSE]
    /\ result = [status |-> "pending"]
    /\ InitDispatcherIdle

SpecLookup == InitLookup /\ [][NextDhcp]_vars

\* C25: a dhcp call with a search that is neither empty nor the wildcard
\* returns only the leases of which the lower-cased query is a substring of
\* the ip, mac or hostname.
C25_DhcpHonoursSearch ==
    (result.status = "success" /\ IsFilteredSearch(params)) =>
        \A family \in {"dhcpv4", "dhcpv6"} :
            \A i \in 1..Len(result[family]) :
                HeldFieldMatches(result[family][i], {Lower(Strip(params.search))})

\* The macs of a neighbor table, lower-cased.
NeighborMacsLower(table) == {Lower(m) : m \in NeighborValues(table, "mac")}

\* C30: a lease whose mac equals, ignoring case, the mac of an entry of its
\* family's neighbor table is reported Online.
C30_MacsCaseInsensitive ==
    result.status = "success" =>
        /\ \A i \in 1..Len(result.dhcpv4) :
              Lower(result.dhcpv4[i].mac) \in NeighborMacsLower(tables.arp)
                  => result.dhcpv4[i].actual_status = "Online"
        /\ \A i \in 1..Len(result.dhcpv6) :
              Lower(result.dhcpv6[i].mac) \in NeighborMacsLower(tables.ndp)
                  => result.dhcpv6[i].actual_status = "Online"


----------------------------------------------------------------------------
(* Two subscriptions under one client id *)

\* The subscription has registered its queue and is in its loop.
InLoop == {"await_get", "yield_event"}

\* C26: a step that ends one subscription keeps the registry entry of another
\* subscription that is in its loop under the same client id, and no
\* subscription's loop fails on a missing registry entry.
C26_EndKeepsOtherSubscription ==
    [][/\ \A s, t \in Subs :
              (/\ s # t
               /\ cid[s] = cid[t]
               /\ pc[s] \in Started /\ pc'[s] \in Ended
               /\ pc[t] \in InLoop /\ pc'[t] = pc[t]
               /\ cid[t] \in DOMAIN client_connections)
                  => cid[t] \in DOMAIN client_connections'
       /\ \A t \in Subs : pc'[t] # "crashed"]_vars


----------------------------------------------------------------------------
(* Delivery under fair scheduling *)

\* A step of subscription s's event_generator.
GenStep(s) ==
    /\ gen_connected(s) \/ gen_register(s) \/ gen_get(s) \/ gen_resume(s)
    /\ UNCHANGED toolVars

\* The event loop resumes every generator that can run and whose stream is
\* being read; requests and disconnections come from outside at any time or
\* never.
SpecFair == Init /\ [][Next]_vars /\ \A s \in Subs : WF_vars(GenStep(s))

\* The n-th event accepted for client id c has been yielded by a stream of c.
YieldedTo(c, n) ==
    /\ Len(accepted[c]) >= n
    /\ \E s \in Subs : cid[s] = c /\ accepted[c][n] \in Range(yielded[s])

\* A subscription of c was cancelled or closed.
SubscriptionEnded(c) == \E s \in Subs : cid[s] = c /\ pc[s] = "done"

\* C27: under fair scheduling every event send_to_client accepted for a
\* client id is eventually yielded by a stream of that id, unless a
\* subscription of the id is cancelled or closed.
C27_AcceptedEventuallyYielded ==
    \A c \in ClientIds, n \in 1..MaxEvents :
        (Len(accepted[c]) >= n) ~> (YieldedTo(c, n) \/ SubscriptionEnded(c))


----------------------------------------------------------------------------
(* Precedence of the search over the standalone filters *)

\* The row passes a standalone filter: the filter is not given, or the row's
\* value equals it.
PassesMac(row, p) ==
    ~Truthy(Get(p, "mac", None)) \/ Lower(row.mac) = Lower(p.mac)
PassesIp(row, p, key) ==
    ~Truthy(Get(p, key, None)) \/ row.ip = p[key]

\* The enriched rows of a table that pass the mac filter and the address
\* filter given under `key`.
RowsPassing(table, p, key) ==
    EnrichAll(SelectAt(table, {i \in 1..Len(table) :
                                  PassesMac(table[i], p) /\ PassesIp(table[i], p, key)}, 1),
              tables)

\* C28: a call with a non-empty search returns what the call with that search
\* and no other parameter returns; a call without search returns the arp rows
\* that pass the mac and ip filters and the ndp rows that pass the mac and
\* ipv6 filters.
C28_SearchTakesOver ==
    result.status # "pending" =>
        /\ Truthy(Get(params, "search", None))
              => result = ARPTool_execute([search |-> params.search], tables, resolver)
        /\ (~Truthy(Get(params, "search", None))
              /\ RowsWellFormed(tables.arp) /\ RowsWellFormed(tables.ndp))
              => /\ result.arp = RowsPassing(tables.arp, params, "ip")
                 /\ result.ndp = RowsPassing(tables.ndp, params, "ipv6")

\* A search for a mac fragment given together with an ip filter returns a row
\* with another ip.
C28_Witness ==
    /\ result.status = "success"
    /\ Truthy(Get(params, "search", None))
    /\ Truthy(Get(params, "ip", None))
    /\ \E j \in 1..Len(result.arp) : result.arp[j].ip # params.ip


----------------------------------------------------------------------------
(* The JSON-RPC envelope *)

SupportedMethods == {"initialize", "tools/list", "ListOfferings", "tools/call", "tool/call"}

\* C29: the answer to a JSON-RPC request is an object with exactly the keys
\* jsonrpc, id and one of result and error; jsonrpc is "2.0", id is the id of
\* the request, an error holds a code and a message; a method outside the
\* supported ones is answered with error -32601 and enters no tool's execute.
C29_JsonRpcEnvelope ==
    (Answered /\ request.kind = "jsonrpc") =>
        /\ response.status = 200
        /\ DOMAIN response.body \in {{"jsonrpc", "id", "result"}, {"jsonrpc", "id", "error"}}
        /\ response.body.jsonrpc = "2.0"
        /\ response.body.id = request.id
        /\ "error" \in DOMAIN response.body =>
              /\ DOMAIN response.body.error = {"code", "message"}
              /\ response.body.error.code \in {MethodNotFound, InvalidParams, InternalError}
        /\ request.method \notin SupportedMethods =>
              /\ RpcErrorCode = MethodNotFound
              /\ executed = << >>
              /\ result = [status |-> "pending"]

\* resources/list with id 1 is answered with error -32601 under id 1.
C29_Witness ==
    /\ Answered
    /\ request.kind = "jsonrpc"
    /\ request.method = "resources/list"
    /\ request.id = "1"
    /\ response.body.id = "1"
    /\ RpcErrorCode = MethodNotFound
    /\ executed = << >>

====
